---- MODULE Spec2Model ----
(***************************************************************************)
(* Model of cliff's application base class (src/cliff/app.py): App.run,    *)
(* App.interact and App.run_subcommand, with the lifecycle hooks           *)
(* initialize_app, prepare_to_run_command and clean_up.                    *)
(*                                                                         *)
(* One call of App.run is modelled.  Each statement of run and of          *)
(* run_subcommand is one action; pc is the position in the code.  The      *)
(* hooks, the command's parser and the command's run body are supplied by  *)
(* the embedding application, so each of them either completes or raises,  *)
(* chosen nondeterministically.                                            *)
(*                                                                         *)
(* The source does not say which Python it runs under, and the two         *)
(* language versions disagree on `except Exception as err`: Python 2       *)
(* leaves err bound after the except clause, Python 3 deletes the name at  *)
(* the end of the clause ("as if  try: ... finally: del err").  py3 is the *)
(* interpreter's choice, fixed for the whole run.                          *)
(***************************************************************************)
EXTENDS Integers, Sequences, FiniteSets, TLC

VARIABLES
    py3,               \* TRUE: Python 3 scoping of the except target
    pc,                \* position in run / interact / run_subcommand
    options,           \* self.options (debug, verbose_level)
    remainder,         \* remainder of parse_known_args
    interactive_mode,  \* self.interactive_mode
    console_level,     \* level set on the console handler
    configCount,       \* calls of configure_logging
    initCount,         \* calls of initialize_app
    interactCount,     \* calls of interact
    argvDispatches,    \* calls of run_subcommand made by run (line 127)
    lineDispatches,    \* calls of run_subcommand made by the interactive shell
    hookCalls,         \* calls of prepare_to_run_command, cmd.run, clean_up
    origin,            \* who called run_subcommand: "argv" | "line" | "none"
    argv,              \* run_subcommand's argument
    cmd_name,          \* local cmd_name
    sub_argv,          \* local sub_argv
    cmd,               \* local cmd (the instance, identified by its name)
    err,               \* local err
    result,            \* local result
    pending,           \* exception in flight in run_subcommand, or "None"
    err2,              \* local err2
    full_name,         \* local full_name
    cleanups,          \* arguments of each clean_up call of the current dispatch
    cmd_result,        \* value the command's run body returned (line 166)
    events,            \* steps taken by the current call of run_subcommand
    log,               \* records logged by the current call of run_subcommand
    outcome            \* how run ended

vars == <<py3, pc, options, remainder, interactive_mode, console_level,
          configCount, initCount, interactCount, argvDispatches,
          lineDispatches, hookCalls, origin, argv, cmd_name, sub_argv, cmd,
          err, result, pending, err2, full_name, cleanups, cmd_result,
          events, log, outcome>>

globals == <<py3, options, remainder, interactive_mode, console_level,
             configCount, initCount, interactCount>>

(***************************************************************************)
(* Bounds                                                                  *)
(***************************************************************************)
MaxArgv == 2       \* longest token sequence handed to run / typed on a line
MaxLines == 2      \* lines the interactive shell reads before input ends
MaxVerbose == 3    \* largest verbose_level (-v repeated)

(***************************************************************************)
(* Values                                                                  *)
(***************************************************************************)
Tokens == {"help", "foo", "bar"}

NAME == "prog"

\* Names the command manager knows: 'help' is added by App.__init__, the
\* others by the embedding application.  "foo" is a prefix of "foo bar".
Registry == {<<"help">>, <<"foo">>, <<"foo", "bar">>}

Results == {0, 1, 2}

SeqsUpTo(n) == UNION {[1..k -> Tokens] : k \in 0..n}

NoCmd == <<>>

WARNING == 30
INFO == 20
DEBUG == 10

DEFAULT_VERBOSE_LEVEL == 1


(***************************************************************************)
(* Failures.  CommandNotFound is the registry's lookup failure; SystemExit *)
(* is argparse's process-exit signal, which is not an Exception.           *)
(***************************************************************************)
None == "None"
Unbound == "unbound"     \* the name err after Python 3 deleted it

IsException(e) ==
    e \in {"CommandNotFound", "PrepareError", "ExecError", "CleanupError",
           "UnboundLocalError"}

Running == [kind |-> "running", value |-> 0, exc |-> None]
Returned(v) == [kind |-> "return", value |-> v, exc |-> None]
Raised(e) == [kind |-> "raise", value |-> 0, exc |-> e]
Exited(code) == [kind |-> "exit", value |-> code, exc |-> "SystemExit"]

Step(s, o) == [step |-> s, out |-> o]

LogRecord(k, f, e) == [kind |-> k, fmt |-> f, exc |-> e]

(***************************************************************************)
(* Command manager: find_command resolves a token sequence to the longest  *)
(* registered name that is a prefix of it.                                 *)
(***************************************************************************)
IsPrefix(n, a) == Len(n) <= Len(a) /\ SubSeq(a, 1, Len(n)) = n

Matches(a) == {n \in Registry : IsPrefix(n, a)}

find_command(a) ==
    LET n == CHOOSE n \in Matches(a) : \A m \in Matches(a) : Len(m) <= Len(n)
    IN  [cmd_name |-> n, sub_argv |-> SubSeq(a, Len(n) + 1, Len(a))]

\* Variant: an unmapped verbosity falls back to the quietest threshold.
ConsoleLevel_DefaultWarning(v) ==
    CASE v = 0 -> WARNING
      [] v = 1 -> INFO
      [] v = 2 -> DEBUG
      [] OTHER -> WARNING

(***************************************************************************)
(* configure_logging: the console threshold of a verbosity level.          *)
(***************************************************************************)
ConsoleLevel(v) ==
    CASE v = 0 -> WARNING
      [] v = 1 -> INFO
      [] v = 2 -> DEBUG
      [] OTHER -> DEBUG

(***************************************************************************)
(* Pieces of run and run_subcommand.                                       *)
(***************************************************************************)
\* Variant: the mode test inverted.
EntersInteract_Inverted(rem) == rem # <<>>

\* run, line 124: `if not remainder`
EntersInteract(rem) == rem = <<>>

\* Variant: the program name is prefixed in interactive mode too.
FullName_AlwaysPrefixed(interactive, name) == <<NAME>> \o name

\* run_subcommand, line 163
FullName(interactive, name) ==
    IF interactive THEN name ELSE <<NAME>> \o name

\* Variant: the prepare hook called after the arguments are parsed.
StepAfter_PrepareLate(s) ==
    CASE s = "create" -> "get_parser"
      [] s = "get_parser" -> "parse_args"
      [] s = "parse_args" -> "prepare"
      [] s = "prepare" -> "execute"

\* The order of the statements in the try body, lines 158-166.
StepAfter(s) ==
    CASE s = "create" -> "prepare"
      [] s = "prepare" -> "get_parser"
      [] s = "get_parser" -> "parse_args"
      [] s = "parse_args" -> "execute"

\* Lines 167-171: what the handler logs.
ExceptLog(debug, e) ==
    IF debug THEN LogRecord("exception", "%s", e)
             ELSE LogRecord("error", "ERROR: %s", e)

\* Variant: the handler re-raises whatever the debug flag says.
ExceptPending_AlwaysRaises(debug, e) == e

\* Variant: the handler never re-raises.
ExceptPending_Swallows(debug, e) == None

\* Lines 168-170: the handler re-raises only in debug mode.
ExceptPending(debug, e) == IF debug THEN e ELSE None

\* The name err when the except clause is left.
ErrAfterExcept(isPy3, e) == IF isPy3 THEN Unbound ELSE e

\* Lines 175-179: what the inner handler logs.
Except2Log(debug, e) ==
    IF debug THEN LogRecord("exception", "%s", e)
             ELSE LogRecord("error", "Could not clean up: %s", e)

\* Variant: a cleanup failure replaces the failure already in flight.
Except2Pending_Replaces(debug, p, e) == IF p # None THEN e ELSE p

\* Variant: the inner handler re-raises in debug mode.
Except2Pending_DebugRaises(debug, p, e) == IF debug THEN e ELSE p

\* Variant: the inner handler lets the failure through when debug is off.
Except2Pending_QuietRaises(debug, p, e) == IF debug THEN p ELSE e

\* Variant: the inner handler re-raises every cleanup failure.
Except2Pending_AlwaysRaises(debug, p, e) == e

\* Lines 175-179: the inner handler never raises, so whatever was in flight
\* when the finally clause was entered is still in flight after it.
Except2Pending(debug, p, e) == p

\* End of the finally clause: re-raise what is in flight, else line 180.
AfterFinally(p) == IF p = None THEN "sub_return" ELSE "sub_raise"

(***************************************************************************)
(* Init: the App after __init__ (line 43), before run is called.           *)
(***************************************************************************)
Init ==
    /\ py3 \in BOOLEAN
    /\ pc = "start"
    /\ options = [debug |-> FALSE, verbose_level |-> DEFAULT_VERBOSE_LEVEL]
    /\ remainder = <<>>
    /\ interactive_mode = FALSE
    /\ console_level = 0
    /\ configCount = 0
    /\ initCount = 0
    /\ interactCount = 0
    /\ argvDispatches = 0
    /\ lineDispatches = 0
    /\ hookCalls = 0
    /\ origin = "none"
    /\ argv = <<>>
    /\ cmd_name = NoCmd
    /\ sub_argv = <<>>
    /\ cmd = NoCmd
    /\ err = None
    /\ result = 1
    /\ pending = None
    /\ err2 = None
    /\ full_name = <<>>
    /\ cleanups = <<>>
    /\ cmd_result = 1
    /\ events = <<>>
    /\ log = <<>>
    /\ outcome = Running

frame == <<origin, argv, cmd_name, sub_argv, cmd, err, result, pending, err2,
           full_name, cleanups, cmd_result, events, log>>

counters == <<argvDispatches, lineDispatches, hookCalls>>

(***************************************************************************)
(* run, lines 117-128                                                      *)
(***************************************************************************)
\* Line 120: parse_known_args yields the options and the remainder.
ParseGlobalOptions ==
    /\ pc = "start"
    /\ \E d \in BOOLEAN, v \in 0..MaxVerbose, rem \in SeqsUpTo(MaxArgv) :
         /\ options' = [debug |-> d, verbose_level |-> v]
         /\ remainder' = rem
    /\ pc' = "configure_logging"
    /\ UNCHANGED <<py3, interactive_mode, console_level, configCount,
                   initCount, interactCount, counters, frame, outcome>>

\* Variant: the flag's action prints and the run carries on.
ParseTerminalFlag_Continues ==
    /\ pc = "start"
    /\ pc' = "configure_logging"
    /\ outcome' = Exited(0)
    /\ UNCHANGED <<globals, counters, frame>>

\* Line 120: --version or -h/--help ends the process inside the parser.
ParseTerminalFlag ==
    /\ pc = "start"
    /\ pc' = "done"
    /\ outcome' = Exited(0)
    /\ UNCHANGED <<globals, counters, frame>>

\* Variant: run goes on without configuring logging.
ConfigureLogging_NotCalled ==
    /\ pc = "configure_logging"
    /\ pc' = "initialize_app"
    /\ UNCHANGED <<globals, counters, frame, outcome>>

\* Line 121
ConfigureLogging ==
    /\ pc = "configure_logging"
    /\ console_level' = ConsoleLevel(options.verbose_level)
    /\ configCount' = configCount + 1
    /\ pc' = "initialize_app"
    /\ UNCHANGED <<py3, options, remainder, interactive_mode, initCount,
                   interactCount, counters, frame, outcome>>

\* Variant: run goes on without calling the initialization hook.
InitializeApp_NotCalled ==
    /\ pc = "initialize_app"
    /\ pc' = "select_mode"
    /\ UNCHANGED <<globals, counters, frame, outcome>>

\* Line 122
InitializeApp ==
    /\ pc = "initialize_app"
    /\ initCount' = initCount + 1
    /\ pc' = "select_mode"
    /\ UNCHANGED <<py3, options, remainder, interactive_mode, console_level,
                   configCount, interactCount, counters, frame, outcome>>

\* The call of run_subcommand(a): a fresh frame.
Call(a, who) ==
    /\ origin' = who
    /\ argv' = a
    /\ pending' = None
    /\ cleanups' = <<>>
    /\ events' = <<>>
    /\ log' = <<>>
    /\ pc' = "find_command"
    /\ UNCHANGED <<cmd_name, sub_argv, cmd, err, result, err2, full_name,
                   cmd_result>>

\* Lines 123-125 and 150-152: no remainder, enter the interactive shell.
Interact ==
    /\ pc = "select_mode"
    /\ EntersInteract(remainder)
    /\ interactive_mode' = TRUE
    /\ interactCount' = interactCount + 1
    /\ pc' = "cmdloop"
    /\ UNCHANGED <<py3, options, remainder, console_level, configCount,
                   initCount, counters, frame, outcome>>

\* Lines 126-127: dispatch the remainder.
SingleShot ==
    /\ pc = "select_mode"
    /\ ~EntersInteract(remainder)
    /\ Call(remainder, "argv")
    /\ argvDispatches' = argvDispatches + 1
    /\ UNCHANGED <<globals, lineDispatches, hookCalls, outcome>>

(***************************************************************************)
(* The interactive shell (cmdloop, line 153): reads a line, splits it into *)
(* tokens and hands them to run_subcommand; ends on quit or end of input.  *)
(***************************************************************************)
ReadLine ==
    /\ pc = "cmdloop"
    /\ lineDispatches < MaxLines
    /\ \E line \in SeqsUpTo(MaxArgv) \ {<<>>} : Call(line, "line")
    /\ lineDispatches' = lineDispatches + 1
    /\ UNCHANGED <<globals, argvDispatches, hookCalls, outcome>>

\* cmdloop returns; interact returns 0 (line 154); run returns it (line 128).
EndOfInput ==
    /\ pc = "cmdloop"
    /\ pc' = "done"
    /\ outcome' = Returned(0)
    /\ UNCHANGED <<globals, counters, frame>>


(***************************************************************************)
(* run_subcommand, lines 156-180                                           *)
(***************************************************************************)
\* Lines 157-160: the name resolves; the command is created.
FindCommandFound ==
    /\ pc = "find_command"
    /\ Matches(argv) # {}
    /\ cmd_name' = find_command(argv).cmd_name
    /\ sub_argv' = find_command(argv).sub_argv
    /\ cmd' = find_command(argv).cmd_name
    /\ err' = None
    /\ result' = 1
    /\ events' = events \o <<Step("find_command", "ok")>>
    /\ pc' = StepAfter("create")
    /\ UNCHANGED <<globals, counters, origin, argv, pending, err2, full_name,
                   cleanups, cmd_result, log, outcome>>

\* Line 157: find_command raises, outside the try statement.
FindCommandNotFound ==
    /\ pc = "find_command"
    /\ Matches(argv) = {}
    /\ pending' = "CommandNotFound"
    /\ events' = events \o <<Step("find_command", "raise")>>
    /\ pc' = "sub_raise"
    /\ UNCHANGED <<globals, cmd_result, counters, origin, argv, cmd_name,
                   sub_argv, cmd,
                   err, result, err2, full_name, cleanups, log, outcome>>

\* Line 162: the prepare hook returns.
PrepareOk ==
    /\ pc = "prepare"
    /\ hookCalls' = hookCalls + 1
    /\ events' = events \o <<Step("prepare", "ok")>>
    /\ pc' = StepAfter("prepare")
    /\ UNCHANGED <<globals, cmd_result, argvDispatches, lineDispatches,
                   origin, argv,
                   cmd_name, sub_argv, cmd, err, result, pending, err2,
                   full_name, cleanups, log, outcome>>

\* Line 162: the prepare hook raises.
PrepareRaises ==
    /\ pc = "prepare"
    /\ hookCalls' = hookCalls + 1
    /\ events' = events \o <<Step("prepare", "raise")>>
    /\ pending' = "PrepareError"
    /\ pc' = "except"
    /\ UNCHANGED <<globals, cmd_result, argvDispatches, lineDispatches,
                   origin, argv,
                   cmd_name, sub_argv, cmd, err, result, err2, full_name,
                   cleanups, log, outcome>>

\* Lines 163-164: the display name and the command's parser.
GetParser ==
    /\ pc = "get_parser"
    /\ full_name' = FullName(interactive_mode, cmd_name)
    /\ events' = events \o <<Step("get_parser", "ok")>>
    /\ pc' = StepAfter("get_parser")
    /\ UNCHANGED <<globals, cmd_result, counters, origin, argv, cmd_name,
                   sub_argv, cmd,
                   err, result, pending, err2, cleanups, log, outcome>>

\* Line 165: the arguments parse.
ParseArgsOk ==
    /\ pc = "parse_args"
    /\ events' = events \o <<Step("parse_args", "ok")>>
    /\ pc' = StepAfter("parse_args")
    /\ UNCHANGED <<globals, cmd_result, counters, origin, argv, cmd_name,
                   sub_argv, cmd,
                   err, result, pending, err2, full_name, cleanups, log,
                   outcome>>

\* Variant: the exit signal is caught like an ordinary failure.
ParseArgsExits_Caught ==
    /\ pc = "parse_args"
    /\ events' = events \o <<Step("parse_args", "raise")>>
    /\ pending' = "SystemExit"
    /\ pc' = "except"
    /\ UNCHANGED <<globals, cmd_result, counters, origin, argv, cmd_name,
                   sub_argv, cmd, err, result, err2, full_name, cleanups,
                   log, outcome>>

\* Line 165: argparse rejects the arguments and exits.  SystemExit is not
\* an Exception: the except clause is skipped, the finally clause runs.
ParseArgsExits ==
    /\ pc = "parse_args"
    /\ events' = events \o <<Step("parse_args", "raise")>>
    /\ pending' = "SystemExit"
    /\ pc' = "finally"
    /\ UNCHANGED <<globals, cmd_result, counters, origin, argv, cmd_name,
                   sub_argv, cmd,
                   err, result, err2, full_name, cleanups, log, outcome>>

\* Line 166: the command's run body returns r.
RunReturns ==
    /\ pc = "execute"
    /\ \E r \in Results : result' = r /\ cmd_result' = r
    /\ hookCalls' = hookCalls + 1
    /\ events' = events \o <<Step("run", "ok")>>
    /\ pc' = "finally"
    /\ UNCHANGED <<globals, argvDispatches, lineDispatches, origin, argv,
                   cmd_name, sub_argv, cmd, err, pending, err2, full_name,
                   cleanups, log, outcome>>

\* Line 166: the command's run body raises.
RunRaises ==
    /\ pc = "execute"
    /\ hookCalls' = hookCalls + 1
    /\ events' = events \o <<Step("run", "raise")>>
    /\ pending' = "ExecError"
    /\ pc' = "except"
    /\ UNCHANGED <<globals, cmd_result, argvDispatches, lineDispatches,
                   origin, argv,
                   cmd_name, sub_argv, cmd, err, result, err2, full_name,
                   cleanups, log, outcome>>

\* Lines 167-171: the handler binds err, logs, and re-raises in debug mode.
Except ==
    /\ pc = "except"
    /\ log' = log \o <<ExceptLog(options.debug, pending)>>
    /\ err' = ErrAfterExcept(py3, pending)
    /\ pending' = ExceptPending(options.debug, pending)
    /\ pc' = "finally"
    /\ UNCHANGED <<globals, cmd_result, counters, origin, argv, cmd_name,
                   sub_argv, cmd,
                   result, err2, full_name, cleanups, events, outcome>>

\* Line 174: the cleanup hook returns.
CleanUpOk ==
    /\ pc = "finally"
    /\ err # Unbound
    /\ hookCalls' = hookCalls + 1
    /\ cleanups' = Append(cleanups, [cmd |-> cmd, result |-> result, err |-> err])
    /\ events' = events \o <<Step("clean_up", "ok")>>
    /\ pc' = AfterFinally(pending)
    /\ UNCHANGED <<globals, cmd_result, argvDispatches, lineDispatches,
                   origin, argv,
                   cmd_name, sub_argv, cmd, err, result, pending, err2,
                   full_name, log, outcome>>

\* Line 174: the cleanup hook raises.
CleanUpRaises ==
    /\ pc = "finally"
    /\ err # Unbound
    /\ hookCalls' = hookCalls + 1
    /\ cleanups' = Append(cleanups, [cmd |-> cmd, result |-> result, err |-> err])
    /\ events' = events \o <<Step("clean_up", "raise")>>
    /\ err2' = "CleanupError"
    /\ pc' = "except2"
    /\ UNCHANGED <<globals, cmd_result, argvDispatches, lineDispatches,
                   origin, argv,
                   cmd_name, sub_argv, cmd, err, result, pending, full_name,
                   log, outcome>>

\* Line 174 under Python 3 after the except clause ran: evaluating the
\* argument err raises UnboundLocalError before clean_up is called.
CleanUpArgUnbound ==
    /\ pc = "finally"
    /\ err = Unbound
    /\ err2' = "UnboundLocalError"
    /\ pc' = "except2"
    /\ UNCHANGED <<globals, cmd_result, counters, origin, argv, cmd_name,
                   sub_argv, cmd,
                   err, result, pending, full_name, cleanups, events, log,
                   outcome>>

\* Lines 175-179: the inner handler logs and does not raise.
Except2 ==
    /\ pc = "except2"
    /\ log' = log \o <<Except2Log(options.debug, err2)>>
    /\ pending' = Except2Pending(options.debug, pending, err2)
    /\ pc' = AfterFinally(pending')
    /\ UNCHANGED <<globals, cmd_result, counters, origin, argv, cmd_name,
                   sub_argv, cmd,
                   err, result, err2, full_name, cleanups, events, outcome>>

\* Lines 180 and 127-128: run returns what run_subcommand returned.
ReturnToRun ==
    /\ pc = "sub_return"
    /\ origin = "argv"
    /\ outcome' = Returned(result)
    /\ pc' = "done"
    /\ UNCHANGED <<globals, counters, frame>>

\* Line 180: back in the interactive shell, which reads the next line.
ReturnToShell ==
    /\ pc = "sub_return"
    /\ origin = "line"
    /\ pc' = "cmdloop"
    /\ UNCHANGED <<globals, counters, frame, outcome>>

\* run_subcommand raised; run has no handler (line 127).
RaiseFromRun ==
    /\ pc = "sub_raise"
    /\ origin = "argv"
    /\ outcome' = Raised(pending)
    /\ pc' = "done"
    /\ UNCHANGED <<globals, counters, frame>>

\* run_subcommand raised into the interactive shell, which has no handler
\* either: the failure leaves cmdloop, interact (line 153) and run.
RaiseFromShell ==
    /\ pc = "sub_raise"
    /\ origin = "line"
    /\ outcome' = Raised(pending)
    /\ pc' = "done"
    /\ UNCHANGED <<globals, counters, frame>>

Next ==
    \/ ParseGlobalOptions
    \/ ParseTerminalFlag
    \/ ConfigureLogging
    \/ InitializeApp
    \/ Interact
    \/ SingleShot
    \/ ReadLine
    \/ EndOfInput
    \/ FindCommandFound
    \/ FindCommandNotFound
    \/ PrepareOk
    \/ PrepareRaises
    \/ GetParser
    \/ ParseArgsOk
    \/ ParseArgsExits
    \/ RunReturns
    \/ RunRaises
    \/ Except
    \/ CleanUpOk
    \/ CleanUpRaises
    \/ CleanUpArgUnbound
    \/ Except2
    \/ ReturnToRun
    \/ ReturnToShell
    \/ RaiseFromRun
    \/ RaiseFromShell

Spec == Init /\ [][Next]_vars

TypeOK ==
    /\ py3 \in BOOLEAN
    /\ options.debug \in BOOLEAN
    /\ options.verbose_level \in 0..MaxVerbose
    /\ result \in Results
    /\ outcome.kind \in {"running", "return", "raise", "exit"}


(***************************************************************************)
(* Reading the history of the current dispatch.                            *)
(***************************************************************************)
Has(s, o) == \E i \in DOMAIN events : events[i] = Step(s, o)

Count(s) == Cardinality({i \in DOMAIN events : events[i].step = s})

RecordsOf(e) == SelectSeq(log, LAMBDA r : r.exc = e)

\* run_subcommand is about to return to, or raise into, its caller.
Ended == pc \in {"sub_return", "sub_raise"}

\* run has not reached the mode selection yet.
BeforeInit == pc \in {"start", "configure_logging", "initialize_app"}

(***************************************************************************)
(* C1: every call of run_subcommand calls clean_up exactly once before it  *)
(* ends, whether resolution, prepare, parsing or the run body fails or     *)
(* all succeed, debug on or off.                                           *)
(***************************************************************************)
C1_CleanUpExactlyOnce == Ended => Count("clean_up") = 1

(***************************************************************************)
(* C2: when the remainder matches no registered command, run propagates    *)
(* nothing to its caller and the result is 1, debug on or off.             *)
(***************************************************************************)
C2_NotFoundReturnsOne ==
    (pc = "done" /\ origin = "argv" /\ Matches(remainder) = {})
        => outcome = Returned(1)

(***************************************************************************)
(* C3: debug off and the run body raises: run returns 1, nothing           *)
(* propagates, and the failure is logged as exactly one 'ERROR: ...'       *)
(* record.                                                                 *)
(***************************************************************************)
C3_QuietExecFailure ==
    (pc = "done" /\ origin = "argv" /\ ~options.debug /\ Has("run", "raise"))
        => /\ outcome = Returned(1)
           /\ RecordsOf("ExecError")
                = <<LogRecord("error", "ERROR: %s", "ExecError")>>

C3_Witness ==
    /\ pc = "done" /\ origin = "argv" /\ ~options.debug
    /\ Has("run", "raise")
    /\ outcome.kind = "return"

(***************************************************************************)
(* C4: debug on and the run body raises: the failure is logged with its    *)
(* traceback, run_subcommand raises that same failure, and run raises it   *)
(* to its caller instead of returning.                                     *)
(***************************************************************************)
C4_DebugExecFailure ==
    /\ (Ended /\ options.debug /\ Has("run", "raise"))
          => /\ pc = "sub_raise"
             /\ pending = "ExecError"
             /\ Len(log) >= 1
             /\ log[1] = LogRecord("exception", "%s", "ExecError")
    /\ (pc = "done" /\ options.debug /\ Has("run", "raise"))
          => outcome = Raised("ExecError")

C4_Witness ==
    /\ pc = "done" /\ origin = "argv" /\ options.debug
    /\ Has("run", "raise")
    /\ outcome.kind = "raise"

(***************************************************************************)
(* C5: the run body fails and clean_up then fails too: two log records,    *)
(* the first for the execution failure and the second for the cleanup      *)
(* failure under its own message; with debug on the failure that leaves    *)
(* run is the execution failure.                                           *)
(***************************************************************************)
C5_BothFailuresReported ==
    /\ (Ended /\ Has("run", "raise") /\ Has("clean_up", "raise"))
          => /\ Len(log) = 2
             /\ log[1].exc = "ExecError"
             /\ log[2].exc = "CleanupError"
             /\ log[1].kind = (IF options.debug THEN "exception" ELSE "error")
             /\ log[2].kind = (IF options.debug THEN "exception" ELSE "error")
             /\ ~options.debug =>
                    /\ log[1].fmt = "ERROR: %s"
                    /\ log[2].fmt = "Could not clean up: %s"
             /\ options.debug => pc = "sub_raise" /\ pending = "ExecError"
             /\ ~options.debug => pc = "sub_return" /\ pending = None
    /\ (pc = "done" /\ options.debug
          /\ Has("run", "raise") /\ Has("clean_up", "raise"))
          => outcome = Raised("ExecError")

C5_Witness ==
    /\ pc = "done" /\ options.debug
    /\ Has("run", "raise") /\ Has("clean_up", "raise")
    /\ Len(log) = 2


C7_CleanupFailureGivesOne ==
    (pc = "sub_return" /\ ~options.debug /\ Has("clean_up", "raise"))
        => /\ RecordsOf("CleanupError")
                = <<LogRecord("error", "Could not clean up: %s", "CleanupError")>>
           /\ result = 1

(***************************************************************************)
(* C7 amended: debug off and clean_up raises: the failure is logged as one *)
(* 'Could not clean up' error line and swallowed, and it leaves the result *)
(* of the invocation unchanged: run_subcommand returns what the run body   *)
(* returned, and the fallback 1 only when the run body did not return.     *)
(***************************************************************************)
C7_CleanupFailureKeepsResult ==
    (Ended /\ ~options.debug /\ Has("clean_up", "raise"))
        => /\ RecordsOf("CleanupError")
                = <<LogRecord("error", "Could not clean up: %s", "CleanupError")>>
           /\ pending # "CleanupError"
           /\ pc = "sub_return" =>
                result = (IF Has("run", "ok") THEN cmd_result ELSE 1)
           /\ pc = "sub_raise" => Has("parse_args", "raise")

C7_Witness ==
    /\ pc = "sub_return" /\ ~options.debug
    /\ Has("run", "ok") /\ Has("clean_up", "raise")
    /\ cmd_result = 0 /\ result = 0

(***************************************************************************)
(* The steps of one invocation, in the order of the events.                *)
(***************************************************************************)
Ordered(rank(_)) ==
    \A i, j \in DOMAIN events :
        i < j => rank(events[i].step) < rank(events[j].step)

\* prepare -> resolve -> parse -> execute -> cleanup
RankPrepareFirst(s) ==
    CASE s = "prepare" -> 1
      [] s = "find_command" -> 2
      [] s = "get_parser" -> 3
      [] s = "parse_args" -> 4
      [] s = "run" -> 5
      [] s = "clean_up" -> 6

\* resolve -> prepare -> parse -> execute -> cleanup
RankResolveFirst(s) ==
    CASE s = "find_command" -> 1
      [] s = "prepare" -> 2
      [] s = "get_parser" -> 3
      [] s = "parse_args" -> 4
      [] s = "run" -> 5
      [] s = "clean_up" -> 6

C9_InitializeOnce ==
    /\ initCount <= 1
    /\ hookCalls > 0 => initCount = 1
    /\ argvDispatches + lineDispatches > 0 => initCount = 1
    /\ (~BeforeInit /\ outcome.kind # "exit") => initCount = 1
    /\ BeforeInit => initCount = 0 /\ hookCalls = 0

C9_Witness ==
    /\ pc = "done"
    /\ lineDispatches >= 2
    /\ hookCalls >= 4
    /\ initCount = 1

(***************************************************************************)
(* C10: run selects exactly one mode.  Empty remainder: the interactive    *)
(* loop is entered, run never dispatches from the argument vector, and run *)
(* returns 0 when the loop ends on end of input or quit.  Non-empty        *)
(* remainder: exactly one dispatch of that remainder, and the interactive  *)
(* loop is never entered.                                                  *)
(***************************************************************************)
C10_ModeSelection ==
    /\ interactCount + argvDispatches <= 1
    /\ (~BeforeInit /\ pc # "select_mode" /\ outcome.kind # "exit")
          => interactCount + argvDispatches = 1
    /\ (pc = "select_mode" \/ BeforeInit)
          => interactCount + argvDispatches + lineDispatches = 0
    /\ interactCount = 1
          => /\ remainder = <<>>
             /\ interactive_mode
             /\ origin # "argv"
             /\ (pc = "done" /\ outcome.kind = "return") => outcome.value = 0
    /\ argvDispatches = 1
          => /\ remainder # <<>>
             /\ ~interactive_mode
             /\ lineDispatches = 0
             /\ origin = "argv"
             /\ argv = remainder
    /\ lineDispatches > 0 => interactCount = 1

C10_Witness ==
    /\ pc = "done"
    /\ interactCount = 1
    /\ lineDispatches >= 1
    /\ outcome = Returned(0)


(***************************************************************************)
(* C11: a terminal flag (--version, -h/--help) met while the global        *)
(* options are parsed ends the run at once: logging is not configured,     *)
(* initialize_app is not called, and no prepare hook, command execution or *)
(* cleanup hook runs.                                                      *)
(***************************************************************************)
C11_TerminalFlagStopsRun ==
    outcome.kind = "exit"
        => /\ pc = "done"
           /\ outcome.value = 0
           /\ configCount = 0
           /\ initCount = 0
           /\ interactCount = 0
           /\ argvDispatches + lineDispatches = 0
           /\ hookCalls = 0
           /\ events = <<>>

C11_Witness == pc = "done" /\ outcome = Exited(0) /\ configCount = 0

(***************************************************************************)
(* C12: the console threshold is defined for every verbosity: 0 gives      *)
(* warning, 1 gives info, 2 gives debug, anything else gives debug; a      *)
(* higher verbosity never gives a less detailed threshold.                 *)
(***************************************************************************)
C12_VerbosityMapping ==
    configCount = 1
        => /\ options.verbose_level = 0 => console_level = WARNING
           /\ options.verbose_level = 1 => console_level = INFO
           /\ options.verbose_level = 2 => console_level = DEBUG
           /\ options.verbose_level >= 3 => console_level = DEBUG
           /\ console_level \in {WARNING, INFO, DEBUG}
           /\ \A w \in 0..options.verbose_level :
                  ConsoleLevel(w) >= console_level

C12_Witness ==
    /\ configCount = 1
    /\ options.verbose_level >= 3
    /\ console_level = DEBUG


(***************************************************************************)
(* The stage of the run: Start, GlobalOptionsParsed, LoggingConfigured,    *)
(* AppInitialized, InteractiveLoop or SingleShotDispatch, Terminal.        *)
(***************************************************************************)
Stage ==
    CASE pc = "start" -> 0
      [] pc = "configure_logging" -> 1
      [] pc = "initialize_app" -> 2
      [] pc = "select_mode" -> 3
      [] pc = "done" -> 5
      [] OTHER -> 4

StageCounts ==
    /\ configCount <= 1
    /\ Stage <= 1 => configCount = 0
    /\ Stage <= 2 => initCount = 0
    /\ Stage <= 3 => /\ interactCount + argvDispatches + lineDispatches = 0
                     /\ hookCalls = 0
    /\ (Stage >= 2 /\ outcome.kind # "exit") => configCount = 1
    /\ (Stage >= 3 /\ outcome.kind # "exit") => initCount = 1
    /\ (Stage >= 4 /\ outcome.kind # "exit")
          => interactCount + argvDispatches = 1

(***************************************************************************)
(* C13: a run that does not stop on a terminal flag goes through the       *)
(* stages in the order global options parsed, logging configured,          *)
(* application initialized, interactive loop or single-shot dispatch,      *)
(* terminal, one stage at a time; configure_logging is called exactly once *)
(* per run, before initialize_app and before any invocation, however many  *)
(* interactive invocations follow.                                         *)
(***************************************************************************)
C13_StageOrder ==
    /\ []StageCounts
    /\ [][outcome'.kind # "exit" => Stage' \in {Stage, Stage + 1}]_vars

C13_Witness ==
    /\ pc = "done"
    /\ outcome.kind = "return"
    /\ lineDispatches >= 2
    /\ configCount = 1

(***************************************************************************)
(* C14: clean_up receives (command, result, failure) describing the        *)
(* invocation: after the run body returned, the command instance, the      *)
(* value it returned and no failure; after the run body raised, the        *)
(* command instance, the default result 1 and the failure raised.          *)
(***************************************************************************)
C14_CleanUpArguments ==
    /\ (Ended /\ Has("run", "ok"))
          => cleanups = <<[cmd |-> cmd_name, result |-> cmd_result,
                           err |-> None]>>
    /\ (Ended /\ Has("run", "raise"))
          => cleanups = <<[cmd |-> cmd_name, result |-> 1,
                           err |-> "ExecError"]>>


(***************************************************************************)
(* C15: in interactive mode with debug off a failing invocation (command   *)
(* not found, execution failure, cleanup failure) never ends the session:  *)
(* nothing propagates out of run_subcommand, the loop reads the next line, *)
(* and run returns 0 when input ends; with debug on an execution failure   *)
(* propagates out of run.                                                  *)
(***************************************************************************)
C15_SessionSurvivesFailures ==
    /\ (Ended /\ origin = "line" /\ ~options.debug
          /\ ~Has("parse_args", "raise"))
          => pc = "sub_return"
    /\ (pc = "done" /\ interactCount = 1 /\ ~options.debug
          /\ ~Has("parse_args", "raise"))
          => outcome = Returned(0)
    /\ (pc = "done" /\ interactCount = 1 /\ options.debug
          /\ Has("run", "raise"))
          => outcome = Raised("ExecError")

(***************************************************************************)
(* C16: when the parsing of the subcommand's arguments exits, for debug on *)
(* and off, run_subcommand neither logs nor swallows the exit: the run     *)
(* body is not executed, clean_up is called once, and the exit then        *)
(* propagates to the caller.                                               *)
(***************************************************************************)
C16_ParseExitNotMediated ==
    /\ (Ended /\ Has("parse_args", "raise"))
          => /\ pc = "sub_raise"
             /\ pending = "SystemExit"
             /\ RecordsOf("SystemExit") = <<>>
             /\ Count("run") = 0
             /\ Count("clean_up") = 1
             /\ events[Len(events)].step = "clean_up"
             /\ cleanups = <<[cmd |-> cmd_name, result |-> 1, err |-> None]>>
    /\ (pc = "done" /\ Has("parse_args", "raise"))
          => outcome = Raised("SystemExit")

C16_Witness ==
    /\ pc = "done"
    /\ Has("parse_args", "raise")
    /\ Has("clean_up", "raise")
    /\ options.debug
    /\ outcome = Raised("SystemExit")

(***************************************************************************)
(* C17: the display name handed to the command's parser is the matched     *)
(* name alone when interactive_mode is set, and the program name followed  *)
(* by the matched name otherwise; interactive_mode is false from           *)
(* construction, becomes true only on entering the interactive loop, and   *)
(* is never reset.                                                         *)
(***************************************************************************)
DisplayName ==
    /\ Has("get_parser", "ok")
          => /\ interactive_mode => full_name = cmd_name
             /\ ~interactive_mode => /\ Len(full_name) = Len(cmd_name) + 1
                                     /\ Head(full_name) = NAME
                                     /\ Tail(full_name) = cmd_name
    /\ interactive_mode <=> interactCount = 1
    /\ Stage <= 3 => ~interactive_mode

C17_DisplayNameAndFlag ==
    /\ []DisplayName
    /\ [][/\ interactive_mode => interactive_mode'
          /\ (~interactive_mode /\ interactive_mode')
                => pc = "select_mode" /\ remainder = <<>> /\ pc' = "cmdloop"
       ]_vars

C17_Witness ==
    /\ Ended
    /\ origin = "line"
    /\ lineDispatches = 2
    /\ Has("get_parser", "ok")
    /\ interactive_mode
    /\ full_name = <<"foo", "bar">>

(***************************************************************************)
(* C18: single-shot mode, resolution, prepare, parsing and the run body    *)
(* all complete: run returns exactly the value the run body returned,      *)
(* whether clean_up succeeds or fails, debug on or off.                    *)
(***************************************************************************)
C18_SingleShotResult ==
    (Stage = 5 /\ argvDispatches = 1 /\ Has("run", "ok"))
        => /\ outcome.kind = "return"
           /\ outcome.value = cmd_result

C18_Witness ==
    /\ pc = "done"
    /\ argvDispatches = 1
    /\ Has("run", "ok")
    /\ Has("clean_up", "raise")
    /\ outcome = Returned(2)

(***************************************************************************)
(* C19: a failure of the prepare hook is handled like a failure of the run *)
(* body: parsing and execution are skipped, clean_up still runs once, and  *)
(* the outcome is result 1 without propagation when debug is off and       *)
(* propagation of that failure when debug is on.                           *)
(***************************************************************************)
C19_PrepareFailure ==
    (Ended /\ Has("prepare", "raise"))
        => /\ Count("get_parser") = 0
           /\ Count("parse_args") = 0
           /\ Count("run") = 0
           /\ Count("clean_up") = 1
           /\ ~options.debug => pc = "sub_return" /\ result = 1
           /\ options.debug => pc = "sub_raise" /\ pending = "PrepareError"

====
